---- MODULE Spec2Model ----
(***************************************************************************)
(* Model of the auto-book acquisition tool: the proxy fetch gateway        *)
(* (fetchWithRetry), the catalog client (searchBooks, fetchBooks) and the  *)
(* acquisition board held in the App component (discovery, review and      *)
(* confirmed collections, the discovery requests in flight, the analysis   *)
(* request).                                                               *)
(*                                                                         *)
(* The specifications, all over the same variables:                        *)
(*   Spec          the App component: user events and the completions of   *)
(*                 the requests they start.  A gateway call is seen from   *)
(*                 outside: it settles with a parsed body or it throws.    *)
(*   HistSpec      Spec with the history set everConfirmed recorded, one   *)
(*                 discovery request in flight at a time.                  *)
(*   AnalysisSpec  the board with the analysis request.                    *)
(*   GwSpec        one fetchWithRetry call after another, by attempts.     *)
(*   GwFair        GwSpec with every attempt and every sleep settling.     *)
(***************************************************************************)
EXTENDS Integers, Sequences, FiniteSets, TLC

\* ---------------------------------------------------------------- bounds
NumIds == 2        \* provider item ids are 1..NumIds
MaxItems == 2      \* longest item list in a provider response
MaxInflight == 2   \* discovery requests in flight at once
MaxPage == 2       \* highest page number reached by refresh
MaxCalls == 2      \* fetchWithRetry calls made one after another in GwSpec

\* ------------------------------------------------------- program constants
NumProxies == 2
AttemptsPerProxy == 2

\* ------------------------------------------------------------------ types
FetchSource == {"combined", "bestseller", "itemNewSpecial", "editorRecommend"}
BookStatus == {"discovery", "review", "confirmed"}

\* categoryName: "" is an absent category, "comic" contains the comics marker
Categories == {"", "novel", "comic"}
Titles == {"t1", "t2"}

\* publication date strings: 0 is the empty string, -1 a string that does not
\* parse, d > 0 the day d (parsed to the instant 2*d, in half-days)
NowTick == 1002
YearTicks == 730
DateStrings == {0, -1, 100, 135, 136, 500}

AladinItem == [itemId : 1..NumIds, title : Titles, categoryName : Categories,
               pubDate : DateStrings]
NlkDoc == [isbn13 : 0..NumIds, no : 1..NumIds, bookname : Titles,
           class_nm : Categories, publication_year : DateStrings]

RECURSIVE SeqsUpTo(_, _)
SeqsUpTo(S, n) ==
  IF n = 0 THEN {<<>>}
  ELSE LET shorter == SeqsUpTo(S, n - 1)
       IN shorter \cup {Append(s, x) : s \in {t \in shorter : Len(t) = n - 1}, x \in S}

\* ------------------------------------------------------------ sequences
IdsOf(s) == {s[i].id : i \in 1..Len(s)}

\* -------------------------------------------------------- catalog client
AladinId(n) == [ns |-> "aladin", n |-> n]
NlkId(n) == [ns |-> "nlk", n |-> n]

mapAladinItemToBook(item) ==
  [id |-> AladinId(item.itemId), title |-> item.title,
   categoryName |-> item.categoryName, pubDate |-> item.pubDate,
   priceSales |-> 1, status |-> "discovery"]

mapNlkDocToBook(item) ==
  [id |-> NlkId(IF item.isbn13 # 0 THEN item.isbn13 ELSE item.no),
   title |-> item.bookname, categoryName |-> item.class_nm,
   pubDate |-> item.publication_year, priceSales |-> 0, status |-> "discovery"]

\* faulty variant: a date on the cutoff is taken as too old
isWithinOneYear_Strict(dateStr) ==
  IF dateStr = 0 THEN FALSE
  ELSE IF dateStr = -1 THEN TRUE
  ELSE 2 * dateStr > NowTick - YearTicks

isWithinOneYear(dateStr) ==
  IF dateStr = 0 THEN FALSE
  ELSE IF dateStr = -1 THEN TRUE
  ELSE 2 * dateStr >= NowTick - YearTicks

isNotComic(book) ==
  IF book.categoryName = "" THEN TRUE ELSE book.categoryName # "comic"

\* faulty variant: the first occurrence of an id is the one kept
RECURSIVE uniqueBooks_KeepsFirst(_)
uniqueBooks_KeepsFirst(s) ==
  IF s = <<>> THEN <<>>
  ELSE LET init == SubSeq(s, 1, Len(s) - 1)
           last == s[Len(s)]
           u == uniqueBooks_KeepsFirst(init)
       IN IF last.id \in IdsOf(u) THEN u ELSE Append(u, last)

\* Array.from(new Map(combined.map(item => [item.id, item])).values()):
\* a key keeps the position of its first occurrence and the value of its last
RECURSIVE uniqueBooks(_)
uniqueBooks(s) ==
  IF s = <<>> THEN <<>>
  ELSE LET init == SubSeq(s, 1, Len(s) - 1)
           last == s[Len(s)]
           u == uniqueBooks(init)
       IN IF last.id \in IdsOf(u)
          THEN [i \in 1..Len(u) |-> IF u[i].id = last.id THEN last ELSE u[i]]
          ELSE Append(u, last)

\* a parsed body of the commercial catalog: errorCode and errorMessage a string
\* ("" when absent), item an
\* array or not
AladinBody(items) == [errorCode : {"", "8"}, errorMessage : {"", "m"},
                      isArray : BOOLEAN, item : items]
\* data.response of the library: error a string ("" when absent)
NlkBody(docs) == [error : {"", "e"}, isArray : BOOLEAN, docs : docs]

\* data.item.map(mapAladinItemToBook)
mapItems(items) == [i \in 1..Len(items) |-> mapAladinItemToBook(items[i])]
\* data.response.docs.map(...)
mapDocs(docs) == [i \in 1..Len(docs) |-> mapNlkDocToBook(docs[i])]

ItemsOf(data) == IF data.isArray THEN mapItems(data.item) ELSE <<>>

\* the outcome of a call: a returned list, or a thrown error
\* new Error(`${name}: ${detail}`)
Err(name, detail) == [name |-> name, detail |-> detail]
Returned(books) == [ok |-> TRUE, books |-> books, error |-> Err("none", "")]
Thrown(e) == [ok |-> FALSE, books |-> <<>>, error |-> e]

searchBooksResult(data) ==
  IF data.errorCode # ""
  THEN Thrown(Err("Aladin Search Error",
                  IF data.errorMessage # "" THEN data.errorMessage ELSE data.errorCode))
  ELSE IF ~data.isArray THEN Returned(<<>>)
  ELSE Returned(SelectSeq(SelectSeq(mapItems(data.item),
                                    LAMBDA book : isWithinOneYear(book.pubDate)),
                          isNotComic))

fetchNlkResult(data) ==
  IF data.error # "" THEN Thrown(Err("", data.error))
  ELSE IF ~data.isArray THEN Returned(<<>>)
  ELSE Returned(mapDocs(data.docs))

\* faulty variant: the filters of searchBooks are applied to a listing
fetchListResult_WithRecency(data) ==
  IF data.errorCode # "" THEN Thrown(Err("Aladin Error", data.errorMessage))
  ELSE Returned(SelectSeq(SelectSeq(ItemsOf(data),
                                    LAMBDA book : isWithinOneYear(book.pubDate)),
                          isNotComic))

fetchListResult(data) ==
  IF data.errorCode # "" THEN Thrown(Err("Aladin Error", data.errorMessage))
  ELSE Returned(SelectSeq(ItemsOf(data), isNotComic))

\* faulty variant: the new-special error code is looked at first
fetchCombinedResult_NewSpecialFirst(bestsellerData, newSpecialData) ==
  IF newSpecialData.errorCode # ""
  THEN Thrown(Err("Aladin NewSpecial Error", newSpecialData.errorMessage))
  ELSE IF bestsellerData.errorCode # ""
  THEN Thrown(Err("Aladin Bestseller Error", bestsellerData.errorMessage))
  ELSE Returned(SelectSeq(uniqueBooks(ItemsOf(bestsellerData) \o ItemsOf(newSpecialData)),
                          isNotComic))

fetchCombinedResult(bestsellerData, newSpecialData) ==
  IF bestsellerData.errorCode # ""
  THEN Thrown(Err("Aladin Bestseller Error", bestsellerData.errorMessage))
  ELSE IF newSpecialData.errorCode # ""
  THEN Thrown(Err("Aladin NewSpecial Error", newSpecialData.errorMessage))
  ELSE Returned(SelectSeq(uniqueBooks(ItemsOf(bestsellerData) \o ItemsOf(newSpecialData)),
                          isNotComic))


\* ------------------------------------------------------------------ state
VARIABLES
  discoveryBooks,   \* App: the three board collections, sequences of books
  reviewBooks,
  confirmedBooks,
  excludedIdsRef,   \* App: ids of review and confirmed, kept by an effect
  isLoading,
  isSearching,
  activeSource,
  searchQuery,      \* "" or "q"
  page,
  fetchError,       \* "none", "load", "search" or "empty"
  analysis,         \* <<>> (null) or <<report>>
  isAnalyzing,
  apiKeys,
  inflight,         \* discovery requests awaiting their gateway calls
  analysisReq,      \* <<>> or <<books>>: the list an analysis call was given
  lastOp,           \* history: the last card operation and the id of its book
  everConfirmed,    \* history: ids that have been in confirmed
  gw,               \* the fetchWithRetry call of GwSpec
  cl,               \* the catalog client call of ClientSpec
  alerted,          \* App: the alert the last settled analysis call raised, or "none"
  ai,               \* the analyzeAcquisitionList call of AiSpec
  csv,              \* the order download of CsvSpec
  lastEvent         \* history: the re-fetching user event handled last, in RefetchSpec

vars == <<discoveryBooks, reviewBooks, confirmedBooks, excludedIdsRef,
          isLoading, isSearching, activeSource, searchQuery, page,
          fetchError, analysis, isAnalyzing, apiKeys, inflight,
          analysisReq, lastOp, everConfirmed, gw, cl, alerted, ai, csv,
          lastEvent>>

NoId == [ns |-> "none", n |-> 0]
Op(name, id) == [op |-> name, id |-> id]

ApiKeys == [aladinTtb : {"", "k"}, nlkApiKey : {"", "k"}]

\* the gateway calls fetchBooks makes for a source, each pending at first
CallsOf(source) == IF source = "combined" THEN <<"pending", "pending">> ELSE <<"pending">>

\* a request in flight; the page and the query go into the url only
LoadRequest(source, currentPage) ==
  [kind |-> "load", source |-> source, calls |-> CallsOf(source)]
SearchRequest(targetPage) ==
  [kind |-> "search", source |-> "search", calls |-> <<"pending">>]

\* the effect that keeps excludedIdsRef, run when review or confirmed change
ExcludedIds(review, confirmed) == IdsOf(review \o confirmed)

\* the gateway call of GwSpec, not started.  pc is "idle", "fetching",
\* "sleeping", "returned" or "thrown"; log holds one entry per attempt made;
\* lastError and result are <<>> (undefined) or <<value>>
GwIdle == [pc |-> "idle", proxy |-> 1, attempt |-> 0, log |-> <<>>,
           lastError |-> <<>>, result |-> <<>>, sleeps |-> 0, calls |-> 0]

\* the catalog client call of ClientSpec, not started.  pc is "idle",
\* "awaiting", "returned" or "thrown"; args holds its arguments; calls holds the gateway calls the call
\* has issued, data[j] is <<>> or <<the body call j resolved with>>; result is
\* <<>> or <<the value returned or the error thrown>>
ClientIdle == [pc |-> "idle", fn |-> "none", args |-> <<>>, calls |-> <<>>,
               data |-> <<>>, result |-> <<>>, n |-> 0]

\* the analysis service call of AiSpec, not started.  pc is "idle",
\* "awaiting", "returned" or "thrown"; apiKey is process.env.API_KEY; endpoint
\* counts the generateContent calls made; result is <<>> or <<the report
\* returned or the error thrown>>
AiIdle == [pc |-> "idle", apiKey |-> "", books |-> <<>>, endpoint |-> 0,
           result |-> <<>>, n |-> 0]

\* the order download of CsvSpec, not asked for yet: the confirmed list of
\* the last call, the number of files written, the csvContent of the last
\* file (<<>> when none was written), and the number of calls
CsvIdle == [confirmedBooks |-> <<>>, files |-> 0, csvContent |-> <<>>, n |-> 0]

\* loadDiscoveryBooks up to its await: sets discoveryBooks, inflight,
\* isLoading and fetchError
PreCheckFails(source, keys) ==
  \/ source = "editorRecommend" /\ keys.nlkApiKey = ""
  \/ source \in {"combined", "bestseller", "itemNewSpecial"} /\ keys.aladinTtb = ""

loadDiscoveryBooks(source, currentPage, keys) ==
  IF PreCheckFails(source, keys)
  THEN /\ discoveryBooks' = <<>>
       /\ UNCHANGED <<inflight, isLoading, fetchError>>
  ELSE /\ Len(inflight) < MaxInflight
       /\ isLoading' = TRUE
       /\ fetchError' = "none"
       /\ inflight' = Append(inflight, LoadRequest(source, currentPage))
       /\ UNCHANGED discoveryBooks

\* handleSearch up to its await, past its early return: sets inflight,
\* isLoading, isSearching and fetchError
handleSearchStart(targetPage) ==
  /\ Len(inflight) < MaxInflight
  /\ isSearching' = TRUE
  /\ isLoading' = TRUE
  /\ fetchError' = "none"
  /\ inflight' = Append(inflight, SearchRequest(targetPage))

Init ==
  /\ apiKeys \in ApiKeys
  /\ discoveryBooks = <<>>
  /\ reviewBooks = <<>>
  /\ confirmedBooks = <<>>
  /\ excludedIdsRef = {}
  /\ isSearching = FALSE
  /\ activeSource = "combined"
  /\ searchQuery = ""
  /\ page = 1
  /\ fetchError = "none"
  /\ analysis = <<>>
  /\ isAnalyzing = FALSE
  /\ analysisReq = <<>>
  \* the mount effect has called loadDiscoveryBooks('combined', 1)
  /\ isLoading = ~PreCheckFails("combined", apiKeys)
  /\ inflight = IF PreCheckFails("combined", apiKeys) THEN <<>>
                ELSE <<LoadRequest("combined", 1)>>
  /\ lastOp = Op("none", NoId)
  /\ everConfirmed = {}
  /\ gw = GwIdle
  /\ cl = ClientIdle
  /\ alerted = "none"
  /\ ai = AiIdle
  /\ csv = CsvIdle
  /\ lastEvent = "none"

\* ------------------------------------------------------------ user events
setSearchQuery(q) ==
  /\ activeSource # "editorRecommend"
  /\ q # searchQuery
  /\ searchQuery' = q
  /\ UNCHANGED <<lastOp, alerted>>
  /\ UNCHANGED <<discoveryBooks, reviewBooks, confirmedBooks, excludedIdsRef,
                 isLoading, isSearching, activeSource, page, fetchError,
                 analysis, isAnalyzing, apiKeys, inflight, analysisReq, gw>>

handleSourceChange(source) ==
  /\ activeSource' = source
  /\ page' = 1
  /\ searchQuery' = ""
  \* the effect on [activeSource, loadDiscoveryBooks, page] sees the cleared query
  /\ IF source # activeSource \/ page # 1
     THEN loadDiscoveryBooks(source, 1, apiKeys)
     ELSE UNCHANGED <<discoveryBooks, inflight, isLoading, fetchError>>
  /\ UNCHANGED <<lastOp, alerted>>
  /\ UNCHANGED <<reviewBooks, confirmedBooks, excludedIdsRef, isSearching,
                 analysis, isAnalyzing, apiKeys, analysisReq, gw>>

handleSearch ==
  /\ activeSource # "editorRecommend"
  /\ searchQuery # ""
  /\ apiKeys.aladinTtb # ""
  /\ handleSearchStart(1)
  /\ page' = 1
  /\ UNCHANGED <<lastOp, alerted>>
  /\ UNCHANGED <<discoveryBooks, reviewBooks, confirmedBooks, excludedIdsRef,
                 activeSource, searchQuery, analysis, isAnalyzing, apiKeys,
                 analysisReq, gw>>

handleRefresh ==
  /\ page < MaxPage
  /\ page' = page + 1
  /\ IF searchQuery # "" /\ activeSource # "editorRecommend"
     THEN IF apiKeys.aladinTtb # ""
          THEN handleSearchStart(page + 1) /\ UNCHANGED discoveryBooks
          ELSE UNCHANGED <<discoveryBooks, inflight, isLoading, isSearching, fetchError>>
     ELSE IF searchQuery = ""
          THEN loadDiscoveryBooks(activeSource, page + 1, apiKeys) /\ UNCHANGED isSearching
          ELSE UNCHANGED <<discoveryBooks, inflight, isLoading, isSearching, fetchError>>
  /\ UNCHANGED <<lastOp, alerted>>
  /\ UNCHANGED <<reviewBooks, confirmedBooks, excludedIdsRef, activeSource,
                 searchQuery, analysis, isAnalyzing, apiKeys, analysisReq, gw>>

handleSaveKeys(keys) ==
  /\ keys # apiKeys
  /\ apiKeys' = keys
  /\ page' = 1
  /\ IF searchQuery = ""
     THEN loadDiscoveryBooks(activeSource, 1, keys)
     ELSE UNCHANGED <<discoveryBooks, inflight, isLoading, fetchError>>
  /\ UNCHANGED <<lastOp, alerted>>
  /\ UNCHANGED <<reviewBooks, confirmedBooks, excludedIdsRef, isSearching,
                 activeSource, searchQuery, analysis, isAnalyzing, analysisReq, gw>>

\* the retry button of the discovery empty state
retryLoad ==
  /\ ~isLoading
  /\ discoveryBooks = <<>>
  /\ ~(activeSource = "editorRecommend" /\ apiKeys.nlkApiKey = "")
  /\ apiKeys.aladinTtb # ""
  /\ fetchError # "none"
  /\ loadDiscoveryBooks(activeSource, page, apiKeys)
  /\ UNCHANGED <<lastOp, alerted>>
  /\ UNCHANGED <<reviewBooks, confirmedBooks, excludedIdsRef, isSearching,
                 activeSource, searchQuery, page, analysis, isAnalyzing,
                 apiKeys, analysisReq, gw>>

\* --------------------------------------------------------- board actions
\* faulty variant: the moved book keeps the tag it had
WithStatus_KeepsTag(book, st) == book

\* { ...book, status: st }
WithStatus(book, st) == [book EXCEPT !.status = st]
Without(s, id) == SelectSeq(s, LAMBDA b : b.id # id)

moveBookOp(book, action) ==
  IF action = "return"
  THEN IF book.status = "confirmed" THEN "returnConfirmed" ELSE "returnReview"
  ELSE action

\* the branches of moveBook
\* faulty variant: add puts the book at the end of review
moveAdd_Appends(book) ==
  /\ discoveryBooks' = Without(discoveryBooks, book.id)
  /\ reviewBooks' = reviewBooks \o <<WithStatus(book, "review")>>
  /\ UNCHANGED <<confirmedBooks, analysis>>

moveAdd(book) ==
  /\ discoveryBooks' = Without(discoveryBooks, book.id)
  /\ reviewBooks' = <<WithStatus(book, "review")>> \o reviewBooks
  /\ UNCHANGED <<confirmedBooks, analysis>>

\* faulty variant: approve leaves the book in review
moveApprove_KeepsReview(book) ==
  /\ confirmedBooks' = <<WithStatus(book, "confirmed")>> \o confirmedBooks
  /\ analysis' = <<>>
  /\ UNCHANGED <<discoveryBooks, reviewBooks>>

moveApprove(book) ==
  /\ reviewBooks' = Without(reviewBooks, book.id)
  /\ confirmedBooks' = <<WithStatus(book, "confirmed")>> \o confirmedBooks
  /\ analysis' = <<>>
  /\ UNCHANGED discoveryBooks

\* faulty variant: return from confirmed keeps the report
moveReturnConfirmed_KeepsReport(book) ==
  /\ confirmedBooks' = Without(confirmedBooks, book.id)
  /\ reviewBooks' = <<WithStatus(book, "review")>> \o reviewBooks
  /\ UNCHANGED <<discoveryBooks, analysis>>

moveReturnConfirmed(book) ==
  /\ confirmedBooks' = Without(confirmedBooks, book.id)
  /\ reviewBooks' = <<WithStatus(book, "review")>> \o reviewBooks
  /\ analysis' = <<>>
  /\ UNCHANGED discoveryBooks

moveReturnReview(book) ==
  /\ reviewBooks' = Without(reviewBooks, book.id)
  /\ UNCHANGED <<discoveryBooks, confirmedBooks, analysis>>

moveBook(book, action) ==
  /\ CASE action = "add" -> moveAdd(book)
       [] action = "approve" -> moveApprove(book)
       [] action = "return" /\ book.status = "confirmed" -> moveReturnConfirmed(book)
       [] action = "return" /\ book.status = "review" -> moveReturnReview(book)
       [] OTHER ->
            UNCHANGED <<discoveryBooks, reviewBooks, confirmedBooks, analysis>>
  /\ excludedIdsRef' = ExcludedIds(reviewBooks', confirmedBooks')
  /\ lastOp' = Op(moveBookOp(book, action), book.id)
  /\ UNCHANGED alerted
  /\ UNCHANGED <<isLoading, isSearching, activeSource, searchQuery, page,
                 fetchError, isAnalyzing, apiKeys, inflight, analysisReq, gw>>

\* BookCard: the buttons a card offers, by the status tag of its book
renderActions(book) ==
  CASE book.status = "discovery" -> {"add"}
    [] book.status = "review" -> {"return", "approve"}
    [] book.status = "confirmed" -> {"return"}

Elems(s) == {s[i] : i \in 1..Len(s)}

\* the cards on screen: the discovery column shows a spinner while loading
RenderedBooks ==
  (IF isLoading THEN {} ELSE Elems(discoveryBooks))
    \cup Elems(reviewBooks) \cup Elems(confirmedBooks)

clickCard ==
  \E book \in RenderedBooks : \E action \in renderActions(book) : moveBook(book, action)

\* ------------------------------------------------------------- analysis
handleAnalyze ==
  /\ ~isAnalyzing
  /\ confirmedBooks # <<>>
  /\ isAnalyzing' = TRUE
  /\ analysisReq' = <<confirmedBooks>>
  /\ alerted' = "none"
  /\ UNCHANGED lastOp
  /\ UNCHANGED <<discoveryBooks, reviewBooks, confirmedBooks, excludedIdsRef,
                 isLoading, isSearching, activeSource, searchQuery, page,
                 fetchError, analysis, apiKeys, inflight, gw>>

\* the report the analysis call returns for a list
ReportOf(books) == [of |-> books]

\* alert("AI 분석에 실패했습니다. 잠시 후 다시 시도해주세요.")
AnalysisFailedAlert == "analysis failed, try again later"

\* faulty variant: a failed analysis also drops the report held
analyzeSettles_ClearsOnFailure(resolved) ==
  /\ analysisReq # <<>>
  /\ analysis' = IF resolved THEN <<ReportOf(analysisReq[1])>> ELSE <<>>
  /\ isAnalyzing' = FALSE
  /\ analysisReq' = <<>>
  /\ alerted' = IF resolved THEN "none" ELSE AnalysisFailedAlert
  /\ UNCHANGED lastOp
  /\ UNCHANGED <<discoveryBooks, reviewBooks, confirmedBooks, excludedIdsRef,
                 isLoading, isSearching, activeSource, searchQuery, page,
                 fetchError, apiKeys, inflight, gw>>

\* analyzeAcquisitionList settles: resolved is FALSE when it throws (no key,
\* no response text, a failed call)
analyzeSettles(resolved) ==
  /\ analysisReq # <<>>
  /\ analysis' = IF resolved THEN <<ReportOf(analysisReq[1])>> ELSE analysis
  /\ isAnalyzing' = FALSE
  /\ analysisReq' = <<>>
  /\ alerted' = IF resolved THEN "none" ELSE AnalysisFailedAlert
  /\ UNCHANGED lastOp
  /\ UNCHANGED <<discoveryBooks, reviewBooks, confirmedBooks, excludedIdsRef,
                 isLoading, isSearching, activeSource, searchQuery, page,
                 fetchError, apiKeys, inflight, gw>>

\* ---------------------------------------------- discovery request completion
\* the provider bodies the board is run against
BoardItems == {it \in AladinItem : it.title = "t1" /\ it.pubDate = 500
                                   /\ it.categoryName \in {"novel", "comic"}}
BoardDocs == {d \in NlkDoc : d.bookname = "t1" /\ d.publication_year = 500
                             /\ d.no = 1 /\ d.isbn13 = 0 /\ d.class_nm = "comic"}
BoardAladinBodies ==
  {[errorCode |-> "8", errorMessage |-> "m", isArray |-> FALSE, item |-> <<>>],
   [errorCode |-> "", errorMessage |-> "", isArray |-> FALSE, item |-> <<>>]}
    \cup [errorCode : {""}, errorMessage : {""}, isArray : {TRUE},
          item : SeqsUpTo(BoardItems, MaxItems)]
BoardNlkBodies ==
  {[error |-> "e", isArray |-> FALSE, docs |-> <<>>],
   [error |-> "", isArray |-> FALSE, docs |-> <<>>]}
    \cup [error : {""}, isArray : {TRUE}, docs : SeqsUpTo(BoardDocs, MaxItems)]

\* what searchBooks or fetchBooks makes of the bodies its gateway calls gave
SearchResults == {searchBooksResult(d) : d \in BoardAladinBodies}
NlkResults == {fetchNlkResult(d) : d \in BoardNlkBodies}
CombinedResults ==
  {fetchCombinedResult(b, n) : b \in BoardAladinBodies, n \in BoardAladinBodies}
ListResults == {fetchListResult(d) : d \in BoardAladinBodies}

ResultsOf(req) ==
  IF req.kind = "search" THEN SearchResults
  ELSE IF req.source = "editorRecommend" THEN NlkResults
  ELSE IF req.source = "combined" THEN CombinedResults
  ELSE ListResults

RemoveAt(s, i) == SubSeq(s, 1, i - 1) \o SubSeq(s, i + 1, Len(s))

\* faulty variant: the fetched list is shown unfiltered
freshData_Unfiltered(data) == data

\* data.filter(b => !currentExcluded.has(b.id))
freshData(data) == SelectSeq(data, LAMBDA b : b.id \notin excludedIdsRef)

\* faulty variant: the response of a request that is no longer the one issued
\* last is dropped
requestSettles_DropsSuperseded(i, r) ==
  /\ inflight' = RemoveAt(inflight, i)
  /\ IF i < Len(inflight)
     THEN UNCHANGED <<discoveryBooks, fetchError, isLoading, isSearching>>
     ELSE IF inflight[i].kind = "load"
     THEN /\ discoveryBooks' = IF r.ok THEN freshData(r.books) ELSE <<>>
          /\ fetchError' = IF r.ok THEN fetchError ELSE "load"
          /\ isLoading' = FALSE
          /\ UNCHANGED isSearching
     ELSE /\ discoveryBooks' = IF r.ok THEN freshData(r.books) ELSE discoveryBooks
          /\ fetchError' = IF ~r.ok THEN "search"
                           ELSE IF r.books = <<>> THEN "empty" ELSE fetchError
          /\ isLoading' = FALSE
          /\ isSearching' = FALSE
  /\ UNCHANGED <<lastOp, alerted>>
  /\ UNCHANGED <<reviewBooks, confirmedBooks, excludedIdsRef, activeSource,
                 searchQuery, page, analysis, isAnalyzing, apiKeys,
                 analysisReq, gw>>

\* the rest of loadDiscoveryBooks or handleSearch once its call has settled
\* with result r
requestSettles(i, r) ==
  /\ inflight' = RemoveAt(inflight, i)
  /\ IF inflight[i].kind = "load"
     THEN /\ discoveryBooks' = IF r.ok THEN freshData(r.books) ELSE <<>>
          /\ fetchError' = IF r.ok THEN fetchError ELSE "load"
          /\ isLoading' = FALSE
          /\ UNCHANGED isSearching
     ELSE /\ discoveryBooks' = IF r.ok THEN freshData(r.books) ELSE discoveryBooks
          /\ fetchError' = IF ~r.ok THEN "search"
                           ELSE IF r.books = <<>> THEN "empty" ELSE fetchError
          /\ isLoading' = FALSE
          /\ isSearching' = FALSE
  /\ UNCHANGED <<lastOp, alerted>>
  /\ UNCHANGED <<reviewBooks, confirmedBooks, excludedIdsRef, activeSource,
                 searchQuery, page, analysis, isAnalyzing, apiKeys,
                 analysisReq, gw>>

\* gateway call j of request i returns a body.  The body is read only when
\* every call of the request has returned, so it is chosen there.
callResolves(i, j) ==
  /\ inflight[i].calls[j] = "pending"
  /\ IF \E k \in DOMAIN inflight[i].calls : k # j /\ inflight[i].calls[k] = "pending"
     THEN /\ inflight' = [inflight EXCEPT ![i].calls[j] = "settled"]
          /\ UNCHANGED <<lastOp, alerted>>
          /\ UNCHANGED <<discoveryBooks, reviewBooks, confirmedBooks,
                         excludedIdsRef, isLoading, isSearching, activeSource,
                         searchQuery, page, fetchError, analysis, isAnalyzing,
                         apiKeys, analysisReq, gw>>
     ELSE \E r \in ResultsOf(inflight[i]) : requestSettles(i, r)

\* gateway call j of request i throws: the await of the request throws at
\* once (Promise.all rejects on the first rejection)
callRejects(i, j) ==
  /\ inflight[i].calls[j] = "pending"
  /\ requestSettles(i, Thrown(Err("Network Error", "")))

\* ------------------------------------------------------- fetchWithRetry
\* what one fetch through a proxy can come to: the transport fails; a response
\* with a status, whose body parses as JSON or not
GwBodies == {"b1", "b2"}
AttemptOutcomes ==
  {[transport |-> FALSE, status |-> 0, parses |-> FALSE, body |-> "b1"]}
    \cup [transport : {TRUE}, status : {300, 404}, parses : BOOLEAN, body : {"b1"}]
    \cup [transport : {TRUE}, status : {200, 299}, parses : {FALSE}, body : {"b1"}]
    \cup [transport : {TRUE}, status : {200, 299}, parses : {TRUE}, body : GwBodies]

NoError == [kind |-> "none", proxy |-> 0, attempt |-> 0]
GenericError == [kind |-> "Network Error", proxy |-> 0, attempt |-> 0]
\* the error object an attempt throws; each attempt throws its own
ErrorAt(kind, proxy, attempt) == [kind |-> kind, proxy |-> proxy, attempt |-> attempt]

\* faulty variant: response.ok is not looked at
attemptResult_NoStatusCheck(o, proxy, attempt) ==
  IF ~o.transport
  THEN [ok |-> FALSE, body |-> "", error |-> ErrorAt("transport", proxy, attempt)]
  ELSE IF ~o.parses
  THEN [ok |-> FALSE, body |-> "", error |-> ErrorAt("json", proxy, attempt)]
  ELSE [ok |-> TRUE, body |-> o.body, error |-> NoError]

\* the try block of one attempt
attemptResult(o, proxy, attempt) ==
  IF ~o.transport
  THEN [ok |-> FALSE, body |-> "", error |-> ErrorAt("transport", proxy, attempt)]
  ELSE IF ~(o.status >= 200 /\ o.status <= 299)
  THEN [ok |-> FALSE, body |-> "", error |-> ErrorAt("http", proxy, attempt)]
  ELSE IF ~o.parses
  THEN [ok |-> FALSE, body |-> "", error |-> ErrorAt("json", proxy, attempt)]
  ELSE [ok |-> TRUE, body |-> o.body, error |-> NoError]

GwUnchanged ==
  UNCHANGED <<discoveryBooks, reviewBooks, confirmedBooks, excludedIdsRef,
              isLoading, isSearching, activeSource, searchQuery, page,
              fetchError, analysis, isAnalyzing, apiKeys, inflight,
              analysisReq, lastOp, everConfirmed, cl, alerted, ai, csv,
              lastEvent>>

\* fetchWithRetry is called: the first attempt on the first proxy is issued
fetchWithRetry ==
  /\ gw.pc \in {"idle", "returned", "thrown"}
  /\ gw.calls < MaxCalls
  /\ gw' = [GwIdle EXCEPT !.pc = "fetching", !.calls = gw.calls + 1]
  /\ GwUnchanged

\* faulty variant: only the first error is kept in lastError
fetchAttempt_KeepsFirstError(o) ==
  /\ gw.pc = "fetching"
  /\ LET r == attemptResult(o, gw.proxy, gw.attempt)
         entry == [proxy |-> gw.proxy, attempt |-> gw.attempt, outcome |-> o,
                   ok |-> r.ok, error |-> r.error]
     IN IF r.ok
        THEN gw' = [gw EXCEPT !.pc = "returned", !.result = <<r.body>>,
                              !.log = Append(gw.log, entry)]
        ELSE gw' = [gw EXCEPT !.pc = "sleeping",
                              !.lastError = IF gw.lastError = <<>> THEN <<r.error>>
                                            ELSE gw.lastError,
                              !.log = Append(gw.log, entry)]
  /\ GwUnchanged

\* the attempt in progress settles with outcome o
fetchAttempt(o) ==
  /\ gw.pc = "fetching"
  /\ LET r == attemptResult(o, gw.proxy, gw.attempt)
         entry == [proxy |-> gw.proxy, attempt |-> gw.attempt, outcome |-> o,
                   ok |-> r.ok, error |-> r.error]
     IN IF r.ok
        THEN gw' = [gw EXCEPT !.pc = "returned", !.result = <<r.body>>,
                              !.log = Append(gw.log, entry)]
        ELSE gw' = [gw EXCEPT !.pc = "sleeping", !.lastError = <<r.error>>,
                              !.log = Append(gw.log, entry)]
  /\ GwUnchanged

\* faulty variant: the inner loop runs once more (attempt <= 2)
sleepDone_ExtraAttempt ==
  /\ gw.pc = "sleeping"
  /\ IF gw.attempt + 1 < AttemptsPerProxy + 1
     THEN gw' = [gw EXCEPT !.pc = "fetching", !.attempt = gw.attempt + 1,
                           !.sleeps = gw.sleeps + 1]
     ELSE IF gw.proxy < NumProxies
     THEN gw' = [gw EXCEPT !.pc = "fetching", !.proxy = gw.proxy + 1,
                           !.attempt = 0, !.sleeps = gw.sleeps + 1]
     ELSE gw' = [gw EXCEPT !.pc = "thrown", !.sleeps = gw.sleeps + 1,
                           !.result = IF gw.lastError # <<>> THEN gw.lastError
                                      ELSE <<GenericError>>]
  /\ GwUnchanged

\* the sleep of the catch block ends: the loops go on, or the call throws
sleepDone ==
  /\ gw.pc = "sleeping"
  /\ IF gw.attempt + 1 < AttemptsPerProxy
     THEN gw' = [gw EXCEPT !.pc = "fetching", !.attempt = gw.attempt + 1,
                           !.sleeps = gw.sleeps + 1]
     ELSE IF gw.proxy < NumProxies
     THEN gw' = [gw EXCEPT !.pc = "fetching", !.proxy = gw.proxy + 1,
                           !.attempt = 0, !.sleeps = gw.sleeps + 1]
     ELSE gw' = [gw EXCEPT !.pc = "thrown", !.sleeps = gw.sleeps + 1,
                           !.result = IF gw.lastError # <<>> THEN gw.lastError
                                      ELSE <<GenericError>>]
  /\ GwUnchanged

attemptSettles == \E o \in AttemptOutcomes : fetchAttempt(o)

GwNext ==
  \/ fetchWithRetry
  \/ attemptSettles
  \/ sleepDone
GwSpec == Init /\ [][GwNext]_vars
\* every attempt settles and every sleep ends
GwFair == GwSpec /\ WF_vars(attemptSettles) /\ WF_vars(sleepDone)

\* ------------------------------------------------- catalog client calls
MaxClientCalls == 2   \* catalog client calls made one after another

Keys == {"", "k"}
Queries == {"", "q"}

\* a gateway call of the client: the list or api it asks for, and its state,
\* "pending", "resolved" or "rejected"
GatewayCall(url) == [url |-> url, st |-> "pending"]

ClientUnchanged ==
  UNCHANGED <<discoveryBooks, reviewBooks, confirmedBooks, excludedIdsRef,
              isLoading, isSearching, activeSource, searchQuery, page,
              fetchError, analysis, isAnalyzing, apiKeys, inflight,
              analysisReq, lastOp, everConfirmed, gw, alerted, ai, csv,
              lastEvent>>

ClientFree == cl.pc \in {"idle", "returned", "thrown"} /\ cl.n < MaxClientCalls

\* the call is entered: what it is, with nothing issued yet
ClientEntered(fn, args) ==
  [ClientIdle EXCEPT !.fn = fn, !.args = args, !.n = cl.n + 1]

\* the call returns value, or throws error, or awaits the gateway calls urls
ClientReturns(c, value) == [c EXCEPT !.pc = "returned", !.result = <<value>>]
ClientThrows(c, error) == [c EXCEPT !.pc = "thrown", !.result = <<error>>]
ClientAwaits(c, urls) ==
  [c EXCEPT !.pc = "awaiting",
            !.calls = [j \in 1..Len(urls) |-> GatewayCall(urls[j])],
            !.data = [j \in 1..Len(urls) |-> <<>>]]

\* a Returned or Thrown outcome ends the call
ClientSettles(c, r) ==
  IF r.ok THEN ClientReturns(c, r.books) ELSE ClientThrows(c, r.error)

\* the key checks once the gateway has returned data
validateTtbKeyResult(data) ==
  IF data.errorCode # "" THEN FALSE
  ELSE IF data.isArray THEN TRUE
  ELSE FALSE

validateNlkKeyResult(data) ==
  IF data.error # "" THEN FALSE
  ELSE IF data.hasDocs THEN TRUE
  ELSE FALSE

validateTtbKey(ttbKey) ==
  /\ ClientFree
  /\ cl' = IF ttbKey = ""
           THEN ClientReturns(ClientEntered("validateTtbKey", [ttbKey |-> ttbKey]), FALSE)
           ELSE ClientAwaits(ClientEntered("validateTtbKey", [ttbKey |-> ttbKey]), <<"Bestseller">>)
  /\ ClientUnchanged

validateNlkKey(authKey) ==
  /\ ClientFree
  /\ cl' = IF authKey = ""
           THEN ClientReturns(ClientEntered("validateNlkKey", [authKey |-> authKey]), FALSE)
           ELSE ClientAwaits(ClientEntered("validateNlkKey", [authKey |-> authKey]), <<"recommandList">>)
  /\ ClientUnchanged

\* faulty variant: the early return looks at the key only
searchBooks_QueryUnchecked(query, ttbKey) ==
  /\ ClientFree
  /\ cl' = IF ttbKey = ""
           THEN ClientReturns(ClientEntered("searchBooks", [query |-> query, ttbKey |-> ttbKey]), <<>>)
           ELSE ClientAwaits(ClientEntered("searchBooks", [query |-> query, ttbKey |-> ttbKey]), <<"ItemSearch">>)
  /\ ClientUnchanged

searchBooks(query, ttbKey) ==
  /\ ClientFree
  /\ cl' = IF query = "" \/ ttbKey = ""
           THEN ClientReturns(ClientEntered("searchBooks", [query |-> query, ttbKey |-> ttbKey]), <<>>)
           ELSE ClientAwaits(ClientEntered("searchBooks", [query |-> query, ttbKey |-> ttbKey]), <<"ItemSearch">>)
  /\ ClientUnchanged

\* the list urls fetchBooks asks the gateway for
UrlsOf(source) ==
  CASE source = "bestseller" -> <<"Bestseller">>
    [] source = "itemNewSpecial" -> <<"ItemNewSpecial">>
    [] source = "combined" -> <<"Bestseller", "ItemNewSpecial">>

FetchArgs(source, ttbKey, nlkKey) ==
  [source |-> source, ttbKey |-> ttbKey, nlkKey |-> nlkKey]

\* faulty variant: the commercial key is asked for before the source is looked at
fetchBooks_KeyCheckFirst(source, ttbKey, nlkKey) ==
  /\ ClientFree
  /\ cl' = IF ttbKey = ""
           THEN ClientReturns(ClientEntered("fetchBooks", FetchArgs(source, ttbKey, nlkKey)), <<>>)
           ELSE IF source = "editorRecommend"
           THEN IF nlkKey = ""
                THEN ClientThrows(ClientEntered("fetchBooks", FetchArgs(source, ttbKey, nlkKey)),
                                  Err("NLK key required", ""))
                ELSE ClientAwaits(ClientEntered("fetchBooks", FetchArgs(source, ttbKey, nlkKey)),
                                  <<"recommandList">>)
           ELSE ClientAwaits(ClientEntered("fetchBooks", FetchArgs(source, ttbKey, nlkKey)),
                             UrlsOf(source))
  /\ ClientUnchanged

fetchBooks(source, ttbKey, nlkKey) ==
  /\ ClientFree
  /\ cl' = IF source = "editorRecommend"
           THEN IF nlkKey = ""
                THEN ClientThrows(ClientEntered("fetchBooks", FetchArgs(source, ttbKey, nlkKey)),
                                  Err("NLK key required", ""))
                ELSE ClientAwaits(ClientEntered("fetchBooks", FetchArgs(source, ttbKey, nlkKey)), <<"recommandList">>)
           ELSE IF ttbKey = ""
           THEN ClientReturns(ClientEntered("fetchBooks", FetchArgs(source, ttbKey, nlkKey)), <<>>)
           ELSE ClientAwaits(ClientEntered("fetchBooks", FetchArgs(source, ttbKey, nlkKey)), UrlsOf(source))
  /\ ClientUnchanged

\* the call goes on after its await, every gateway call having resolved
afterAwait(c) ==
  CASE c.fn = "validateTtbKey" -> ClientReturns(c, validateTtbKeyResult(c.data[1][1]))
    [] c.fn = "validateNlkKey" -> ClientReturns(c, validateNlkKeyResult(c.data[1][1]))
    [] c.fn = "searchBooks" -> ClientSettles(c, searchBooksResult(c.data[1][1]))
    [] c.fn = "fetchBooks" /\ c.args.source = "editorRecommend" ->
         ClientSettles(c, fetchNlkResult(c.data[1][1]))
    [] c.fn = "fetchBooks" /\ c.args.source = "combined" ->
         ClientSettles(c, fetchCombinedResult(c.data[1][1], c.data[2][1]))
    [] OTHER -> ClientSettles(c, fetchListResult(c.data[1][1]))

\* faulty variant: the key checks have no catch
afterReject_KeyChecksRethrow(c) == ClientThrows(c, Err("Network Error", ""))

\* the await throws, a gateway call having rejected: the key checks catch
\* and return false, searchBooks and fetchBooks throw the error on
afterReject(c) ==
  IF c.fn \in {"validateTtbKey", "validateNlkKey"}
  THEN ClientReturns(c, FALSE)
  ELSE ClientThrows(c, Err("Network Error", ""))

\* the bodies the provider may answer a client call with
SearchItems == {it \in AladinItem : it.title = "t1"}
ListingItems == {it \in AladinItem : it.pubDate = 100}
LibraryDocs == {d \in NlkDoc : d.bookname = "t1" /\ d.publication_year = 100
                               /\ d.class_nm # ""}
AladinBodiesOf(items) ==
  [errorCode : {"8"}, errorMessage : {"", "m"}, isArray : {FALSE}, item : {<<>>}]
    \cup [errorCode : {""}, errorMessage : {""}, isArray : {FALSE}, item : {<<>>}]
    \cup [errorCode : {""}, errorMessage : {""}, isArray : {TRUE},
          item : SeqsUpTo(items, MaxItems)]
SearchBodies == AladinBodiesOf(SearchItems)
ListingBodies == AladinBodiesOf(ListingItems)
\* hasDocs: data.response.docs is there, an array or not
LibraryBodies ==
  [error : {"e"}, hasDocs : BOOLEAN, isArray : {FALSE}, docs : {<<>>}]
    \cup [error : {""}, hasDocs : BOOLEAN, isArray : {FALSE}, docs : {<<>>}]
    \cup [error : {""}, hasDocs : {TRUE}, isArray : {TRUE},
          docs : SeqsUpTo(LibraryDocs, MaxItems)]
BodiesOf(url) ==
  CASE url = "ItemSearch" -> SearchBodies
    [] url = "recommandList" -> LibraryBodies
    [] OTHER -> ListingBodies

\* gateway call j returns body
gatewayResolves(j, body) ==
  /\ cl.calls[j].st = "pending"
  /\ LET c == [cl EXCEPT !.calls[j].st = "resolved", !.data[j] = <<body>>]
     IN cl' = IF cl.pc = "awaiting" /\ \A k \in DOMAIN c.calls : c.calls[k].st = "resolved"
              THEN afterAwait(c)
              ELSE c
  /\ ClientUnchanged

\* faulty variant: the await waits for every call to settle before it throws
gatewayRejects_WaitsForAll(j) ==
  /\ cl.calls[j].st = "pending"
  /\ LET c == [cl EXCEPT !.calls[j].st = "rejected"]
     IN cl' = IF cl.pc = "awaiting" /\ \A k \in DOMAIN c.calls : c.calls[k].st # "pending"
              THEN afterReject(c)
              ELSE c
  /\ ClientUnchanged

\* gateway call j throws, every proxy exhausted: Promise.all and a plain await
\* throw at once
gatewayRejects(j) ==
  /\ cl.calls[j].st = "pending"
  /\ LET c == [cl EXCEPT !.calls[j].st = "rejected"]
     IN cl' = IF cl.pc = "awaiting" THEN afterReject(c) ELSE c
  /\ ClientUnchanged

callValidateTtbKey == \E ttbKey \in Keys : validateTtbKey(ttbKey)
callValidateNlkKey == \E authKey \in Keys : validateNlkKey(authKey)
callSearchBooks == \E query \in Queries : \E ttbKey \in Keys : searchBooks(query, ttbKey)
callFetchBooks ==
  \E source \in FetchSource : \E ttbKey \in Keys : \E nlkKey \in Keys :
    fetchBooks(source, ttbKey, nlkKey)
gatewayResolved ==
  \E j \in DOMAIN cl.calls : \E body \in BodiesOf(cl.calls[j].url) : gatewayResolves(j, body)
gatewayRejected == \E j \in DOMAIN cl.calls : gatewayRejects(j)

ClientNext ==
  \/ callValidateTtbKey
  \/ callValidateNlkKey
  \/ callSearchBooks
  \/ callFetchBooks
  \/ gatewayResolved
  \/ gatewayRejected
ClientSpec == Init /\ [][ClientNext]_vars

\* ------------------------------------------------ analyzeAcquisitionList
MaxAiCalls == 2
AiKeys == {"", "k"}
AiBooks == {mapAladinItemToBook(it) : it \in BoardItems}
AiLists == SeqsUpTo(AiBooks, MaxItems)

\* a GeminiAnalysis, by its summary and its recommendationScore
Report(summary, score) == [summary |-> summary, recommendationScore |-> score]
NoReport == Report("", -1)
CannedReport == Report("no books selected", 0)

AiReturned(report) == [ok |-> TRUE, report |-> report, error |-> ""]
AiThrown(message) == [ok |-> FALSE, report |-> NoReport, error |-> message]

KeyNotConfigured == "Gemini API Key is not configured."
AnalysisFailed == "AI analysis failed"

\* response.text: empty or missing, text JSON.parse throws on, or the JSON
\* of a report
EndpointTexts ==
  {[empty |-> TRUE, parses |-> FALSE, value |-> NoReport],
   [empty |-> FALSE, parses |-> FALSE, value |-> NoReport]}
    \cup [empty : {FALSE}, parses : {TRUE},
          value : {Report("s", 0), Report("s", 80)}]

AiUnchanged ==
  UNCHANGED <<discoveryBooks, reviewBooks, confirmedBooks, excludedIdsRef,
              isLoading, isSearching, activeSource, searchQuery, page,
              fetchError, analysis, isAnalyzing, apiKeys, inflight,
              analysisReq, lastOp, everConfirmed, gw, cl, alerted, csv,
              lastEvent>>

\* analyzeAcquisitionList(books) up to its await, with process.env.API_KEY
\* being apiKey
analyzeAcquisitionList(apiKey, books) ==
  /\ ai.pc # "awaiting"
  /\ ai.n < MaxAiCalls
  /\ ai' = IF apiKey = ""
           THEN [ai EXCEPT !.pc = "thrown", !.apiKey = apiKey, !.books = books,
                           !.endpoint = 0, !.n = @ + 1,
                           !.result = <<AiThrown(KeyNotConfigured)>>]
           ELSE IF books = <<>>
           THEN [ai EXCEPT !.pc = "returned", !.apiKey = apiKey, !.books = books,
                           !.endpoint = 0, !.n = @ + 1,
                           !.result = <<AiReturned(CannedReport)>>]
           ELSE [ai EXCEPT !.pc = "awaiting", !.apiKey = apiKey, !.books = books,
                           !.endpoint = 1, !.n = @ + 1, !.result = <<>>]
  /\ AiUnchanged

\* generateContent resolves with a response whose text is text
generateContentResolves(text) ==
  /\ ai.pc = "awaiting"
  /\ ai' = IF text.empty \/ ~text.parses
           THEN [ai EXCEPT !.pc = "thrown", !.result = <<AiThrown(AnalysisFailed)>>]
           ELSE [ai EXCEPT !.pc = "returned", !.result = <<AiReturned(text.value)>>]
  /\ AiUnchanged

\* generateContent rejects
generateContentRejects ==
  /\ ai.pc = "awaiting"
  /\ ai' = [ai EXCEPT !.pc = "thrown", !.result = <<AiThrown(AnalysisFailed)>>]
  /\ AiUnchanged

callAnalyze == \E apiKey \in AiKeys, books \in AiLists : analyzeAcquisitionList(apiKey, books)
endpointResolved == \E text \in EndpointTexts : generateContentResolves(text)
AiNext ==
  \/ callAnalyze
  \/ endpointResolved
  \/ generateContentRejects
AiSpec == Init /\ [][AiNext]_vars

\* ------------------------------------------------- handleDownloadOrder
\* text is a sequence of characters
MaxFieldLen == 2
MaxDownloads == 1
Quote == "\""
Comma == ","
Newline == "\n"
Bom == "BOM"
TitleChars == {"a", Quote, Comma}
CategoryChars == {"a", Quote}

\* the confirmed books of the download: title and categoryName vary, the other
\* text fields are plain, the prices are numbers written as their digits
CsvBook == [title : SeqsUpTo(TitleChars, MaxFieldLen), author : {<<"b">>},
            publisher : {<<"p">>}, pubDate : {<<"d">>}, priceStandard : {<<"2">>},
            priceSales : {<<"1">>}, isbn13 : {<<"9">>},
            categoryName : SeqsUpTo(CategoryChars, MaxFieldLen)]
CsvLists == SeqsUpTo(CsvBook, MaxItems)

RECURSIVE Concat(_)
\* the texts of a sequence, one after the other
Concat(texts) == IF texts = <<>> THEN <<>> ELSE Head(texts) \o Concat(Tail(texts))

RECURSIVE Join(_, _)
\* Array.prototype.join
Join(texts, sep) ==
  IF texts = <<>> THEN <<>>
  ELSE IF Len(texts) = 1 THEN texts[1]
  ELSE texts[1] \o <<sep>> \o Join(Tail(texts), sep)

\* text.replace(/"/g, '""')
EscapeQuotes(text) ==
  Concat([i \in 1..Len(text) |-> IF text[i] = Quote THEN <<Quote, Quote>> ELSE <<text[i]>>])
\* `"${text}"`
InQuotes(text) == <<Quote>> \o text \o <<Quote>>

\* the array handleDownloadOrder makes of a book
CsvRow(book) ==
  <<InQuotes(EscapeQuotes(book.title)),
    InQuotes(EscapeQuotes(book.author)),
    InQuotes(EscapeQuotes(book.publisher)),
    InQuotes(book.pubDate),
    book.priceStandard,
    book.priceSales,
    InQuotes(book.isbn13),
    InQuotes(book.categoryName)>>

CsvHeaders == <<<<"T">>, <<"A">>, <<"P">>, <<"D">>, <<"S">>, <<"L">>, <<"I">>, <<"C">>>>

\* bom + [headers.join(','), ...rows.map(row => row.join(','))].join('\n')
CsvContent(books) ==
  <<Bom>> \o Join(<<Join(CsvHeaders, Comma)>>
                    \o [i \in 1..Len(books) |-> Join(CsvRow(books[i]), Comma)],
                  Newline)

CsvUnchanged ==
  UNCHANGED <<discoveryBooks, reviewBooks, confirmedBooks, excludedIdsRef,
              isLoading, isSearching, activeSource, searchQuery, page,
              fetchError, analysis, isAnalyzing, apiKeys, inflight,
              analysisReq, lastOp, everConfirmed, gw, cl, alerted, ai,
              lastEvent>>

\* handleDownloadOrder with books as the confirmed collection
handleDownloadOrder(books) ==
  /\ csv.n < MaxDownloads
  /\ csv' = IF books = <<>>
            THEN [csv EXCEPT !.confirmedBooks = books, !.n = @ + 1]
            ELSE [confirmedBooks |-> books, files |-> csv.files + 1,
                  csvContent |-> CsvContent(books), n |-> csv.n + 1]
  /\ CsvUnchanged

\* the fields a reader of CSV (RFC 4180) finds in a text, row by row: a field
\* that starts with a quote runs to its closing quote, a doubled quote inside
\* it being one quote; what follows a closing quote up to the next comma or
\* line end is taken as it stands.  mode is "start" (of a field), "plain",
\* "quoted" or "quoteSeen" (a quote was met inside a quoted field)
CsvStart == [mode |-> "start", field |-> <<>>, row |-> <<>>, rows |-> <<>>]
CsvStep(st, ch) ==
  IF st.mode = "quoted"
  THEN IF ch = Quote THEN [st EXCEPT !.mode = "quoteSeen"]
       ELSE [st EXCEPT !.field = Append(@, ch)]
  ELSE IF ch = Quote /\ st.mode = "quoteSeen"
  THEN [st EXCEPT !.mode = "quoted", !.field = Append(@, Quote)]
  ELSE IF ch = Quote /\ st.mode = "start"
  THEN [st EXCEPT !.mode = "quoted"]
  ELSE IF ch = Comma
  THEN [st EXCEPT !.mode = "start", !.field = <<>>, !.row = Append(@, st.field)]
  ELSE IF ch = Newline
  THEN [mode |-> "start", field |-> <<>>, row |-> <<>>,
        rows |-> Append(st.rows, Append(st.row, st.field))]
  ELSE [st EXCEPT !.mode = "plain", !.field = Append(@, ch)]

RECURSIVE CsvRun(_, _, _, _)
\* the reader's state after the characters lo..hi of text, read from state st
\* (the range is halved, and the state after the first half looked at before
\* the second half is read, to keep the evaluation shallow)
CsvRun(text, st, lo, hi) ==
  IF lo > hi THEN st
  ELSE IF lo = hi THEN CsvStep(st, text[lo])
  ELSE LET mid == (lo + hi) \div 2
           left == CsvRun(text, st, lo, mid)
       IN IF left.mode = "start"
          THEN CsvRun(text, left, mid + 1, hi)
          ELSE CsvRun(text, left, mid + 1, hi)

CsvRead(text) ==
  LET end == CsvRun(text, CsvStart, 1, Len(text))
  IN Append(end.rows, Append(end.row, end.field))

\* the values of a book the export writes, in column order
CsvValues(book) ==
  <<book.title, book.author, book.publisher, book.pubDate, book.priceStandard,
    book.priceSales, book.isbn13, book.categoryName>>

downloadOrder == \E books \in CsvLists : handleDownloadOrder(books)
CsvNext ==
  \/ downloadOrder
CsvSpec == Init /\ [][CsvNext]_vars

typeQuery == \E q \in {"", "q"} : setSearchQuery(q)
selectSource == \E source \in FetchSource : handleSourceChange(source)
saveKeys == \E keys \in ApiKeys : handleSaveKeys(keys)
callResolved ==
  \E i \in DOMAIN inflight : \E j \in DOMAIN inflight[i].calls : callResolves(i, j)
callRejected ==
  \E i \in DOMAIN inflight : \E j \in DOMAIN inflight[i].calls : callRejects(i, j)
analyzeSettled == \E resolved \in BOOLEAN : analyzeSettles(resolved)

\* the history set, recorded beside a step of the program or left alone
Record == everConfirmed' = everConfirmed \cup IdsOf(confirmedBooks') /\ UNCHANGED <<cl, ai, csv, lastEvent>>
Frozen == UNCHANGED <<everConfirmed, cl, ai, csv, lastEvent>>

\* discovery and the board
Next ==
  \/ typeQuery /\ Frozen
  \/ selectSource /\ Frozen
  \/ handleSearch /\ Frozen
  \/ handleRefresh /\ Frozen
  \/ saveKeys /\ Frozen
  \/ retryLoad /\ Frozen
  \/ clickCard /\ Frozen
  \/ callResolved /\ Frozen
  \/ callRejected /\ Frozen
Spec == Init /\ [][Next]_vars

\* discovery and the board with the history set, one discovery request in
\* flight at a time
MaxHistInflight == 1
OneByOne == Len(inflight') <= MaxHistInflight
HistNext ==
  \/ typeQuery /\ Record
  \/ selectSource /\ OneByOne /\ Record
  \/ handleSearch /\ OneByOne /\ Record
  \/ handleRefresh /\ OneByOne /\ Record
  \/ saveKeys /\ OneByOne /\ Record
  \/ retryLoad /\ OneByOne /\ Record
  \/ clickCard /\ Record
  \/ callResolved /\ Record
  \/ callRejected /\ Record
HistSpec == Init /\ [][HistNext]_vars

\* discovery and the board with the re-fetching user event handled last noted
\* beside each step ("none" once another user event has been handled), one
\* discovery request in flight at a time
Noted(event) == lastEvent' = event /\ UNCHANGED <<everConfirmed, cl, ai, csv>>
Arrived == UNCHANGED <<everConfirmed, cl, ai, csv, lastEvent>>
RefetchNext ==
  \/ typeQuery /\ Noted("none")
  \/ selectSource /\ OneByOne /\ Noted("selectSource")
  \/ handleSearch /\ OneByOne /\ Noted("none")
  \/ handleRefresh /\ OneByOne /\ Noted("handleRefresh")
  \/ saveKeys /\ OneByOne /\ Noted("saveKeys")
  \/ retryLoad /\ OneByOne /\ Noted("none")
  \/ clickCard /\ Noted("none")
  \/ callResolved /\ Arrived
  \/ callRejected /\ Arrived
RefetchSpec == Init /\ [][RefetchNext]_vars

\* the board and the analysis request, with the load made on mount and the
\* loads of refresh and retry
AnalysisNext ==
  \/ handleRefresh /\ Frozen
  \/ retryLoad /\ Frozen
  \/ clickCard /\ Frozen
  \/ handleAnalyze /\ Frozen
  \/ analyzeSettled /\ Frozen
  \/ callResolved /\ Frozen
  \/ callRejected /\ Frozen
AnalysisSpec == Init /\ [][AnalysisNext]_vars

\* ------------------------------------------------------------- properties
Count(s, id) == Cardinality({i \in 1..Len(s) : s[i].id = id})
BoardIds == IdsOf(discoveryBooks) \cup IdsOf(reviewBooks) \cup IdsOf(confirmedBooks)

\* C1: in every reachable state no book id is in discovery and also in review
\* or confirmed: every applied load or search result is filtered against the
\* ids in review and confirmed at the time it is applied.
C1_DiscoveryExcludesLaterStages ==
  IdsOf(discoveryBooks) \cap (IdsOf(reviewBooks) \cup IdsOf(confirmedBooks)) = {}

\* a result is on show and a request is still in flight while books are in
\* review or confirmed and cards can be clicked
C1_Witness ==
  /\ discoveryBooks # <<>>
  /\ excludedIdsRef # {}
  /\ inflight # <<>>
  /\ ~isLoading

\* C2 (as stated): each book id occurs at most once in the concatenation of
\* discovery, review and confirmed, for every provider response.
C2_Original ==
  \A id \in BoardIds : Count(discoveryBooks \o reviewBooks \o confirmedBooks, id) = 1

\* C3: approving a book in review removes it from review and leaves exactly
\* one entry with its id in confirmed, with status confirmed; no id is ever in
\* both review and confirmed.
C3_ApproveMovesOnce ==
  /\ IdsOf(reviewBooks) \cap IdsOf(confirmedBooks) = {}
  /\ lastOp.op = "approve" =>
       /\ lastOp.id \notin IdsOf(reviewBooks)
       /\ Count(confirmedBooks, lastOp.id) = 1
       /\ Head(confirmedBooks).id = lastOp.id
       /\ Head(confirmedBooks).status = "confirmed"

C3_Witness ==
  /\ lastOp.op = "approve"
  /\ Len(confirmedBooks) > 1
  /\ reviewBooks # <<>>

\* C4 (as stated): a book returned from review is placed in no collection and
\* is in neither discovery nor confirmed in any later state.  lastOp is the last card operation, so the
\* states in which it is the discard of id all come after that discard.
C4_Original ==
  lastOp.op = "returnReview" =>
    lastOp.id \notin IdsOf(discoveryBooks) \cup IdsOf(confirmedBooks)

\* C5: returning a book in confirmed removes it from confirmed and prepends
\* it to review with status review; discovery is untouched and the analysis
\* report is set to none.
C5_ReturnConfirmedStep ==
  [][(lastOp'.op = "returnConfirmed" /\ confirmedBooks' # confirmedBooks) =>
       /\ lastOp'.id \in IdsOf(confirmedBooks)
       /\ lastOp'.id \notin IdsOf(confirmedBooks')
       /\ Len(confirmedBooks') = Len(confirmedBooks) - 1
       /\ Tail(reviewBooks') = reviewBooks
       /\ Head(reviewBooks').id = lastOp'.id
       /\ Head(reviewBooks').status = "review"
       /\ discoveryBooks' = discoveryBooks
       /\ analysis' = <<>>]_vars

C5_Witness ==
  /\ lastOp.op = "returnConfirmed"
  /\ Head(reviewBooks).id = lastOp.id
  /\ Len(reviewBooks) > 1
  /\ analysis = <<>>

\* C6 (as stated): no path leads a book that has been in confirmed back into
\* discovery.  everConfirmed holds every id that has been in confirmed.
C6_Original == \A id \in everConfirmed : id \notin IdsOf(discoveryBooks)

\* C7 (as stated): a held report was computed from the current confirmed
\* collection.
C7_Original == analysis # <<>> => analysis[1] = ReportOf(confirmedBooks)

\* C8: the proxies are tried in their order, each at most AttemptsPerProxy
\* times and none again after a later one; the call throws only when every
\* attempt on every proxy has failed; a call under way always ends.
C8_AttemptsInOrder ==
  /\ Len(gw.log) <= NumProxies * AttemptsPerProxy
  /\ \A i \in 1..Len(gw.log) :
       /\ gw.log[i].proxy = ((i - 1) \div AttemptsPerProxy) + 1
       /\ gw.log[i].attempt = (i - 1) % AttemptsPerProxy
  /\ gw.pc = "thrown" =>
       /\ Len(gw.log) = NumProxies * AttemptsPerProxy
       /\ \A i \in 1..Len(gw.log) : ~gw.log[i].ok
C8_BoundedRetry ==
  /\ []C8_AttemptsInOrder
  /\ (gw.pc \in {"fetching", "sleeping"}) ~> (gw.pc \in {"returned", "thrown"})

C8_Witness == gw.pc = "thrown" /\ gw.calls = 1

\* C9: an attempt is accepted exactly when its transport succeeds, its status
\* is in 200..299 and its body parses; the call returns the body of the first
\* accepted attempt, and no attempt follows an accepted one.
C9_FirstAcceptedReturned ==
  /\ \A i \in 1..Len(gw.log) :
       LET o == gw.log[i].outcome
       IN gw.log[i].ok <=> (o.transport /\ o.status \in 200..299 /\ o.parses)
  /\ \A i \in 1..Len(gw.log) : gw.log[i].ok => i = Len(gw.log)
  /\ gw.pc = "returned" <=> (gw.log # <<>> /\ gw.log[Len(gw.log)].ok)
  /\ gw.pc = "returned" => gw.result = <<gw.log[Len(gw.log)].outcome.body>>

\* a body accepted on the last proxy, after a status error with a body that
\* would have parsed
C9_Witness ==
  /\ gw.pc = "returned"
  /\ Len(gw.log) = 3
  /\ gw.log[1].outcome.transport /\ gw.log[1].outcome.parses

\* C10: when every attempt has failed the call throws the error of the last
\* attempt, the second on the last proxy; the generic error is thrown only
\* when no error was captured.
C10_LastErrorRaised ==
  gw.pc = "thrown" =>
    /\ gw.log # <<>>
    /\ gw.result = <<gw.log[Len(gw.log)].error>>
    /\ gw.result[1].proxy = NumProxies
    /\ gw.result[1].attempt = AttemptsPerProxy - 1
    /\ gw.result = <<GenericError>> => gw.lastError = <<>>

\* thrown after attempts that failed in different ways
C10_Witness ==
  /\ gw.pc = "thrown"
  /\ gw.log[1].error.kind # gw.log[Len(gw.log)].error.kind

\* the gateway calls of the client call, and the data of those that resolved
NoCallIssued == cl.calls = <<>>
AllResolved == cl.calls # <<>> /\ \A k \in DOMAIN cl.calls : cl.calls[k].st = "resolved"
SomeRejected == \E k \in DOMAIN cl.calls : cl.calls[k].st = "rejected"
SomePending == \E k \in DOMAIN cl.calls : cl.calls[k].st = "pending"
Data(k) == cl.data[k][1]

\* C11: validateTtbKey and validateNlkKey never throw: whatever the gateway
\* does they return a boolean, true only when the body carries no error code
\* or field and does carry the item array (the docs field).
C11_KeyChecksNeverThrow ==
  cl.fn \in {"validateTtbKey", "validateNlkKey"} =>
    /\ cl.pc # "thrown"
    /\ (NoCallIssued \/ SomeRejected \/ AllResolved) => cl.pc = "returned"
    /\ cl.pc = "returned" =>
         /\ cl.result[1] \in BOOLEAN
         /\ cl.result[1] =>
              /\ AllResolved
              /\ cl.fn = "validateTtbKey" => Data(1).errorCode = "" /\ Data(1).isArray
              /\ cl.fn = "validateNlkKey" => Data(1).error = "" /\ Data(1).hasDocs

\* the gateway has exhausted its proxies and the key check has returned false
C11_Witness ==
  /\ cl.fn = "validateNlkKey"
  /\ SomeRejected
  /\ cl.result = <<FALSE>>

\* C12: searchBooks returns the empty list at once, with no gateway call, when
\* the query or the key is empty; when the body carries an error code it
\* throws an error carrying the provider's message, or its code when there is
\* no message.
C12_SearchGuardsAndProviderError ==
  cl.fn = "searchBooks" =>
    /\ (cl.args.query = "" \/ cl.args.ttbKey = "") =>
         (cl.pc = "returned" /\ cl.result = << <<>> >> /\ NoCallIssued)
    /\ (AllResolved /\ Data(1).errorCode # "") =>
         /\ cl.pc = "thrown"
         /\ cl.result[1].name = "Aladin Search Error"
         /\ cl.result[1].detail # ""
         /\ cl.result[1].detail =
              (IF Data(1).errorMessage # "" THEN Data(1).errorMessage ELSE Data(1).errorCode)

\* a provider error without a message: the error carries the code
C12_Witness ==
  /\ cl.fn = "searchBooks"
  /\ cl.pc = "thrown"
  /\ AllResolved
  /\ cl.result[1].detail = "8"

\* C17: fetchBooks for editorRecommend without a library key throws the
\* missing-key error; for the other sources without a commercial key it
\* returns the empty list; no gateway call is made in either case.
C17_MissingCredential ==
  cl.fn = "fetchBooks" =>
    /\ (cl.args.source = "editorRecommend" /\ cl.args.nlkKey = "") =>
         (cl.pc = "thrown" /\ cl.result = <<Err("NLK key required", "")>> /\ NoCallIssued)
    /\ (cl.args.source # "editorRecommend" /\ cl.args.ttbKey = "") =>
         (cl.pc = "returned" /\ cl.result = << <<>> >> /\ NoCallIssued)
    /\ (cl.args.source = "editorRecommend" /\ cl.args.nlkKey # "") => ~NoCallIssued

\* the library source, asked for with a commercial key and no library key
C17_Witness ==
  /\ cl.fn = "fetchBooks"
  /\ cl.args = FetchArgs("editorRecommend", "k", "")
  /\ cl.pc = "thrown"

\* C19: in the combined fetch with both bodies carrying an error code the
\* call throws the bestseller error; with exactly one carrying an error code
\* it throws that one; no books are returned.
C19_BestsellerErrorFirst ==
  (cl.fn = "fetchBooks" /\ cl.args.source = "combined" /\ AllResolved) =>
    /\ Data(1).errorCode # "" =>
         (cl.pc = "thrown"
          /\ cl.result = <<Err("Aladin Bestseller Error", Data(1).errorMessage)>>)
    /\ (Data(1).errorCode = "" /\ Data(2).errorCode # "") =>
         (cl.pc = "thrown"
          /\ cl.result = <<Err("Aladin NewSpecial Error", Data(2).errorMessage)>>)
    /\ (Data(1).errorCode = "" /\ Data(2).errorCode = "") => cl.pc = "returned"

\* both bodies carry an error code, with different messages
C19_Witness ==
  /\ cl.fn = "fetchBooks" /\ cl.args.source = "combined" /\ AllResolved
  /\ Data(1).errorCode # "" /\ Data(2).errorCode # ""
  /\ Data(1).errorMessage # Data(2).errorMessage
  /\ cl.pc = "thrown"

\* the positions of a list of items that are not comics, and a search call
\* that has returned a list made from a body
NotComicAt(items) == {i \in 1..Len(items) : items[i].categoryName # "comic"}
SearchReturned == cl.fn = "searchBooks" /\ cl.pc = "returned" /\ AllResolved
Cutoff == NowTick - YearTicks

\* C14 (as stated): the recency filter of searchBooks drops a book only if its
\* date string parses to a date before the cutoff; a book whose date string
\* does not parse, the empty string included, is kept, and so is a book dated
\* at or after the cutoff.
C14_Original ==
  SearchReturned =>
    cl.result[1] =
      SelectSeq(mapItems(Data(1).item),
                LAMBDA book : /\ book.categoryName # "comic"
                              /\ (book.pubDate \in {0, -1} \/ 2 * book.pubDate >= Cutoff))

\* C14 (amended): the recency filter drops a book whose date string is empty
\* or missing, and a book whose date string parses to a date before the
\* cutoff; it keeps a book whose non-empty date string does not parse, and a
\* book dated at or after the cutoff.
C14_RecencyFilter ==
  SearchReturned =>
    cl.result[1] =
      SelectSeq(mapItems(Data(1).item),
                LAMBDA book : /\ book.categoryName # "comic"
                              /\ book.pubDate # 0
                              /\ (book.pubDate = -1 \/ 2 * book.pubDate >= Cutoff))

\* a body with a book without date and a book dated on the cutoff: the search
\* returns the second only
C14_Witness ==
  /\ SearchReturned
  /\ Len(Data(1).item) = 2
  /\ Data(1).item[1].pubDate = 0 /\ Data(1).item[1].categoryName = "novel"
  /\ 2 * Data(1).item[2].pubDate = Cutoff /\ Data(1).item[2].categoryName = "novel"
  /\ Len(cl.result[1]) = 1

\* the combined fetch with both bodies in: B and N are the mapped lists, Merged
\* what the deduplication makes of them
CombinedMerged ==
  cl.fn = "fetchBooks" /\ cl.args.source = "combined" /\ AllResolved /\ cl.pc = "returned"
ListB == ItemsOf(Data(1))
ListN == ItemsOf(Data(2))
Merged == uniqueBooks(ListB \o ListN)
LastWithId(s, id) == s[CHOOSE i \in 1..Len(s) : s[i].id = id /\ \A k \in (i + 1)..Len(s) : s[k].id # id]
NoRepeat(s) == Cardinality(IdsOf(s)) = Len(s)

\* C15 (as stated): for lists B and N sharing k ids the merged list has
\* |B| + |N| - k entries with pairwise distinct ids, and the entry kept for a
\* shared id is the one from N.
C15_Original ==
  CombinedMerged =>
    /\ Len(Merged) = Len(ListB) + Len(ListN) - Cardinality(IdsOf(ListB) \cap IdsOf(ListN))
    /\ NoRepeat(Merged)
    /\ \A i \in 1..Len(Merged) :
         Merged[i].id \in IdsOf(ListB) \cap IdsOf(ListN) => Merged[i] \in Elems(ListN)

\* C15 (amended): the merged list has one entry for each id that occurs in B
\* or N, which is |B| + |N| - k entries when neither list repeats an id; its
\* ids are pairwise distinct; the entry kept for an id that occurs in N is its
\* last occurrence in N, and for an id that occurs in B only its last
\* occurrence in B.  The call returns the merged list without its comics.
C15_MergeKeepsLast ==
  CombinedMerged =>
    /\ Len(Merged) = Cardinality(IdsOf(ListB) \cup IdsOf(ListN))
    /\ (NoRepeat(ListB) /\ NoRepeat(ListN)) =>
         Len(Merged) = Len(ListB) + Len(ListN) - Cardinality(IdsOf(ListB) \cap IdsOf(ListN))
    /\ NoRepeat(Merged)
    /\ \A i \in 1..Len(Merged) :
         Merged[i] = IF Merged[i].id \in IdsOf(ListN)
                     THEN LastWithId(ListN, Merged[i].id)
                     ELSE LastWithId(ListB, Merged[i].id)
    /\ cl.result[1] = SelectSeq(Merged, isNotComic)

\* B and N share an id, under different titles: the title returned is N's
C15_Witness ==
  /\ CombinedMerged
  /\ Len(ListB) = 2 /\ Len(ListN) = 1
  /\ ListB[2].id = ListN[1].id /\ ListB[1].id # ListN[1].id
  /\ ListB[2].title # ListN[1].title
  /\ Len(cl.result[1]) = 2
  /\ cl.result[1][2].title = ListN[1].title

CombinedIssued == cl.fn = "fetchBooks" /\ cl.args.source = "combined" /\ ~NoCallIssued

\* C16 (as stated): both listing requests are issued together, and when one
\* fails the combined fetch fails only once both have settled.
C16_Original ==
  CombinedIssued =>
    /\ Len(cl.calls) = 2
    /\ cl.pc = "thrown" => ~SomePending

\* C16 (amended): both listing requests are issued together; when one of
\* them fails the combined fetch fails at once with that error, without
\* waiting for the other to settle; an error code in a body is reported only
\* when both requests have resolved.
C16_FailsOnFirstRejection ==
  CombinedIssued =>
    /\ Len(cl.calls) = 2
    /\ SomeRejected => (cl.pc = "thrown" /\ cl.result = <<Err("Network Error", "")>>)
    /\ (cl.pc = "thrown" /\ ~SomeRejected) => AllResolved
    /\ cl.pc = "awaiting" <=> (SomePending /\ ~SomeRejected)

\* the combined fetch has failed while its other request is still pending
C16_Witness ==
  /\ CombinedIssued
  /\ cl.pc = "thrown"
  /\ cl.calls[1].st = "pending"
  /\ cl.calls[2].st = "rejected"

\* C18: a comic is left out of what fetchBooks returns for bestseller,
\* itemNewSpecial and combined and of what searchBooks returns, and is not
\* left out for editorRecommend; books older than a year are left out by
\* searchBooks only.
C18_ComicAndRecencyFilters ==
  (cl.pc = "returned" /\ AllResolved /\ cl.fn \in {"searchBooks", "fetchBooks"}) =>
    IF cl.fn = "searchBooks"
    THEN /\ \A i \in 1..Len(cl.result[1]) :
              cl.result[1][i].categoryName # "comic" /\ cl.result[1][i].pubDate # 100
         /\ Len(cl.result[1]) <= Cardinality(NotComicAt(Data(1).item))
    ELSE IF cl.args.source = "editorRecommend"
    THEN /\ Len(cl.result[1]) = Len(Data(1).docs)
         /\ \A i \in 1..Len(cl.result[1]) :
              /\ cl.result[1][i].categoryName = Data(1).docs[i].class_nm
              /\ cl.result[1][i].pubDate = Data(1).docs[i].publication_year
    ELSE IF cl.args.source = "combined"
    THEN /\ \A i \in 1..Len(cl.result[1]) : cl.result[1][i].categoryName # "comic"
         /\ IdsOf(cl.result[1]) = {b.id : b \in {m \in Elems(Merged) : m.categoryName # "comic"}}
    ELSE /\ \A i \in 1..Len(cl.result[1]) : cl.result[1][i].categoryName # "comic"
         /\ Len(cl.result[1]) = Cardinality(NotComicAt(Data(1).item))

\* the library source returns a comic, older than a year
C18_Witness ==
  /\ cl.fn = "fetchBooks" /\ cl.args.source = "editorRecommend"
  /\ cl.pc = "returned" /\ AllResolved
  /\ \E i \in 1..Len(cl.result[1]) :
       cl.result[1][i].categoryName = "comic" /\ cl.result[1][i].pubDate = 100

\* the request at position i of inflight has just settled
Settled(i) == i \in DOMAIN inflight /\ inflight' = RemoveAt(inflight, i)

\* what an arriving response of request req can leave in the discovery list
ArrivalLists(req) ==
  {IF r.ok THEN freshData(r.books)
   ELSE IF req.kind = "load" THEN <<>> ELSE discoveryBooks : r \in ResultsOf(req)}

\* C13 (as stated): when a search or a source fetch fails, the caller sets an
\* error message, the discovery list becomes empty and isLoading is reset.
\* A step that removes a request and newly sets fetchError to "load" or
\* "search" is a failed request settling.
C13_Original ==
  [][(/\ \E i \in DOMAIN inflight : Settled(i)
      /\ fetchError' \in {"load", "search"}
      /\ fetchError' # fetchError)
     => (discoveryBooks' = <<>> /\ ~isLoading')]_vars

\* C20: whatever its position among the requests in flight, a response that
\* arrives sets the discovery list to its own result filtered by the
\* exclusion set of that moment (or, failing, to what its handler leaves);
\* no response is dropped for having been superseded.
C20_LastArrivalWins ==
  [][\A i \in DOMAIN inflight :
       Settled(i) => discoveryBooks' \in ArrivalLists(inflight[i])]_vars

\* the library list is shown under the bestseller source on page 2: the
\* refresh issued a bestseller request, which has settled without error, and
\* the response of the library request issued before it arrived after it
C20_Witness ==
  /\ inflight = <<>>
  /\ activeSource = "bestseller"
  /\ page = 2
  /\ apiKeys.aladinTtb = "k"
  /\ fetchError = "none"
  /\ \E i \in DOMAIN discoveryBooks : discoveryBooks[i].id.ns = "nlk"

\* C21: a failed analysis call raises the one failure alert, and the step in
\* which it does leaves the report held and the three collections as they
\* were and resets the analyzing flag; no other alert text is ever raised.
C21_FailureLeavesState ==
  [][/\ alerted' \in {"none", AnalysisFailedAlert}
     /\ (alerted' = AnalysisFailedAlert /\ alerted # AnalysisFailedAlert)
          => /\ analysis' = analysis
             /\ UNCHANGED <<discoveryBooks, reviewBooks, confirmedBooks>>
             /\ ~isAnalyzing']_vars

\* a report is held, and the analysis call made after it has failed
C21_Witness ==
  /\ alerted = AnalysisFailedAlert
  /\ analysis # <<>>
  /\ ~isAnalyzing
  /\ analysis[1] = ReportOf(confirmedBooks)

\* C22 (as stated): called with an empty list, analyzeAcquisitionList returns
\* the canned report with score 0 and makes no endpoint call, whether or not
\* an API key is configured.
C22_Original ==
  (ai.pc # "idle" /\ ai.books = <<>>) =>
    /\ ai.pc = "returned"
    /\ ai.result = <<AiReturned(CannedReport)>>
    /\ ai.endpoint = 0

\* the download that was asked for last wrote a file
Downloaded == csv.n > 0 /\ csv.confirmedBooks # <<>>
\* the data rows of the last file as a reader of CSV finds them
LastRows == Tail(CsvRead(csv.csvContent))

\* C23 (as stated): every text field of the export is quote-escaped, so the
\* file read back as CSV has one row per confirmed book, in confirmed order,
\* holding the book's values; a download with nothing confirmed writes nothing.
C23_Original ==
  /\ Downloaded =>
       /\ Len(LastRows) = Len(csv.confirmedBooks)
       /\ \A i \in 1..Len(csv.confirmedBooks) :
            LastRows[i] = CsvValues(csv.confirmedBooks[i])
  /\ (csv.n > 0 /\ csv.confirmedBooks = <<>>) => csv.files < csv.n

\* a card operation op has just been carried out: every card operation but
\* the discard lengthens its destination, the discard shortens review, and no
\* other step changes review or confirmed
Moved(op) ==
  /\ lastOp'.op = op
  /\ reviewBooks' # reviewBooks \/ confirmedBooks' # confirmedBooks

C25_StatusMatchesCollection ==
  /\ \A i \in DOMAIN discoveryBooks : discoveryBooks[i].status = "discovery"
  /\ \A i \in DOMAIN reviewBooks : reviewBooks[i].status = "review"
  /\ \A i \in DOMAIN confirmedBooks : confirmedBooks[i].status = "confirmed"

\* a confirmed card has been returned while all three collections hold books
C25_Witness ==
  /\ lastOp.op = "returnConfirmed"
  /\ Head(reviewBooks).id = lastOp.id
  /\ discoveryBooks # <<>>
  /\ confirmedBooks # <<>>

\* a user event has just been handled (not the arrival of a response)
Handled(event) ==
  /\ lastEvent' = event
  /\ inflight' = inflight \/ Len(inflight') > Len(inflight)
\* a load of the source is issued in this step and the page becomes pg
Fetches(source, pg) ==
  /\ inflight' = Append(inflight, LoadRequest(source, pg))
  /\ page' = pg

\* C26 (as stated, where the key of the source is configured): selecting a
\* source that changes the source, the page or the query leads to a fetch of
\* that source at page 1; a refresh with no search query leads to a fetch of
\* the next page; saving credentials leads to a fetch at page 1.
C26_Original ==
  [][~PreCheckFails(activeSource', apiKeys') =>
       /\ (Handled("selectSource")
           /\ <<activeSource', page', searchQuery'>> # <<activeSource, page, searchQuery>>)
            => Fetches(activeSource', 1)
       /\ (Handled("handleRefresh") /\ searchQuery = "")
            => Fetches(activeSource, page + 1)
       /\ Handled("saveKeys") => Fetches(activeSource, 1)]_vars

\* C27 (as stated): the call sleeps between consecutive attempts only: when it
\* has thrown, every attempt having failed, it has slept one time fewer than
\* it made attempts; when it has returned, it has slept once per failed
\* attempt and not after the accepted one.
C27_Original ==
  /\ gw.pc = "thrown" => gw.sleeps = Len(gw.log) - 1
  /\ gw.pc = "returned" => gw.sleeps = Len(gw.log) - 1

\* C28 (as stated): isLoading is true whenever a discovery request is in
\* flight, and false once none is.
C28_Original ==
  /\ inflight # <<>> => isLoading
  /\ inflight = <<>> => ~isLoading

\* the number of entries on the board
Total(discovery, review, confirmed) == Len(discovery) + Len(review) + Len(confirmed)

\* C29 (as stated): add, approve and return-from-confirmed leave the number of
\* entries over the three collections as it was; return-from-review lowers it
\* by exactly one.
C29_Original ==
  [][/\ (Moved("add") \/ Moved("approve") \/ Moved("returnConfirmed")) =>
          Total(discoveryBooks', reviewBooks', confirmedBooks')
            = Total(discoveryBooks, reviewBooks, confirmedBooks)
     /\ Moved("returnReview") =>
          Total(discoveryBooks', reviewBooks', confirmedBooks')
            = Total(discoveryBooks, reviewBooks, confirmedBooks) - 1]_vars

====
